---------------------------- MODULE Spec2Model ----------------------------
(***************************************************************************)
(* A model of CyberX.py: a five-stage pipeline (data collection,           *)
(* information extraction, knowledge base, RAG query set-up, CLI session)  *)
(* run by a driver that numbers the run from the artifacts present in the  *)
(* working directory and saves one JSON run log in a finally block.        *)
(*                                                                         *)
(* Texts.  A Python str is modelled as a sequence of pieces.  The texts    *)
(* that the program lower-cases or compares with the question table (user  *)
(* input, table keys, termination keywords) are sequences of single        *)
(* characters.  Texts that are only passed around or trimmed (answers,     *)
(* model responses) may hold a whole run of non-blank characters as one    *)
(* piece; blanks are always pieces of their own.                           *)
(***************************************************************************)
EXTENDS Integers, Sequences, FiniteSets, TLC

\* Python's None.
None == [type |-> "NoneType"]

(***************************************************************************)
(* str.lower() and str.strip()                                             *)
(***************************************************************************)

\* Blank characters removed by str.strip() that a typed line can hold.
Whitespace == {" ", "\t", "\n"}

\* str.lower() on one character (ASCII letters; every other piece is kept).
LowerChar(c) ==
  CASE c = "A" -> "a" [] c = "B" -> "b" [] c = "C" -> "c" [] c = "D" -> "d"
    [] c = "E" -> "e" [] c = "F" -> "f" [] c = "G" -> "g" [] c = "H" -> "h"
    [] c = "I" -> "i" [] c = "J" -> "j" [] c = "K" -> "k" [] c = "L" -> "l"
    [] c = "M" -> "m" [] c = "N" -> "n" [] c = "O" -> "o" [] c = "P" -> "p"
    [] c = "Q" -> "q" [] c = "R" -> "r" [] c = "S" -> "s" [] c = "T" -> "t"
    [] c = "U" -> "u" [] c = "V" -> "v" [] c = "W" -> "w" [] c = "X" -> "x"
    [] c = "Y" -> "y" [] c = "Z" -> "z" [] OTHER -> c

\* str.lower(): every character lower-cased, nothing removed.
lower(s) == [i \in 1..Len(s) |-> LowerChar(s[i])]

\* Index of the first non-blank piece of s at or after i (Len(s)+1 if none).
RECURSIVE FirstNonBlank(_, _)
FirstNonBlank(s, i) ==
  IF i > Len(s) THEN i
  ELSE IF s[i] \in Whitespace THEN FirstNonBlank(s, i + 1) ELSE i

\* Index of the last non-blank piece of s at or before i (0 if none).
RECURSIVE LastNonBlank(_, _)
LastNonBlank(s, i) ==
  IF i < 1 THEN 0
  ELSE IF s[i] \in Whitespace THEN LastNonBlank(s, i - 1) ELSE i

\* str.strip(): leading and trailing blanks removed, inner blanks kept.
strip(s) ==
  LET a == FirstNonBlank(s, 1)
      b == LastNonBlank(s, Len(s))
  IN  IF a > b THEN <<>> ELSE SubSeq(s, a, b)

(***************************************************************************)
(* PREDEFINED_QUESTIONS: the static question/answer table                  *)
(***************************************************************************)

KeyChinaNexus ==
  <<"w","h","i","c","h"," ","t","h","r","e","a","t"," ","a","c","t","o","r","s"," ","a","r","e",
    " ","c","h","i","n","a","-","n","e","x","u","s","?">>

AnswerChinaNexus ==
  <<"Numerous threat actors are linked to China, generally categorized as China-nexus due to their alignment with the strategic intelligence-gathering interests of the People's Republic of China (PRC). In 2025, China-nexus actors include Earth Lamia, Jackpot Panda, APT31, APT41, Warp Panda, and others using advanced exploitation.">>

KeyRansomware ==
  <<"w","h","a","t"," ","a","r","e"," ","t","h","e"," ","m","o","s","t"," ","a","c","t","i","v",
    "e"," ","r","a","n","s","o","m","w","a","r","e"," ","g","r","o","u","p","s"," ","i","n"," ",
    "2","0","2","5","?">>

AnswerRansomware ==
  <<"Active ransomware in 2025: STAC6565 (QWCrypt), VolkLocker, Charon, Storm-0249, LockBit variants.">>

KeyMedusa ==
  <<"r","e","c","e","n","t"," ","a","c","t","i","v","i","t","i","e","s"," ","o","f"," ","m","e",
    "d","u","s","a","?">>

AnswerMedusa ==
  <<"Medusa refers to two prominent entities: a highly active ransomware group and a major submarine cable project. The Medusa ransomware (operated by affiliates like Spearwing) has seen a surge in activity in 2025, targeting critical sectors with double extortion, while the Medusa Submarine Cable System is actively laying new digital infrastructure in the Mediterranean during late 2025.">>

KeyApt31 ==
  <<"r","e","c","e","n","t"," ","a","c","t","i","v","i","t","i","e","s"," ","o","f"," ","a","p",
    "t","3","1","?">>

AnswerApt31 ==
  <<"APT31, a China-linked cyber espionage group, has recently been active in campaigns targeting the Russian IT sector and the Czech Ministry of Foreign Affairs, utilizing a diverse and evolving set of tools to maintain stealth and persistence. APT31 launched stealthy attacks on Russian IT firms in Nov 2025 using CloudyLoader.">>


\* The table: key text -> answer text (a Python dict).
PREDEFINED_QUESTIONS ==
  (KeyChinaNexus :> AnswerChinaNexus) @@ (KeyRansomware :> AnswerRansomware)
    @@ (KeyMedusa :> AnswerMedusa) @@ (KeyApt31 :> AnswerApt31)

\* dict.get(key, default)
DictGet(d, key, default) == IF key \in DOMAIN d THEN d[key] ELSE default


\* Lines a user can type at the prompt.

TypedChinaNexus ==
  <<"W","h","i","c","h"," ","t","h","r","e","a","t"," ","a","c","t","o","r","s"," ","a","r","e",
    " ","C","h","i","n","a","-","n","e","x","u","s","?">>

TypedApt31 ==
  <<"R","e","c","e","n","t"," ","a","c","t","i","v","i","t","i","e","s"," ","o","f"," ","A","P",
    "T","3","1","?">>

TypedApt41 ==
  <<"W","h","o"," ","i","s"," ","A","P","T","4","1","?">>

TypedExit ==
  <<"e","x","i","t">>

TypedQuit ==
  <<"q","u","i","t">>

TypedExitUpper ==
  <<"E","X","I","T">>

TypedQuitMixed ==
  <<"Q","u","i","t">>

TypedExits ==
  <<"e","x","i","t","s">>

\* Lines padded with blanks, as a user may type them.
Padded(s) == <<" ">> \o s \o <<" ", "\t">>

(***************************************************************************)
(* Configuration and built-in data                                         *)
(***************************************************************************)

\* The 15 report URLs.
ARTICLE_URLS ==
  << "https://thehackernews.com/2025/12/chinese-hackers-have-started-exploiting.html",
     "https://thehackernews.com/2025/12/react2shell-exploitation-escalates-into.html",
     "https://thehackernews.com/2025/12/warning-winrar-vulnerability-cve-2025.html",
     "https://thehackernews.com/2025/12/threatsday-bulletin-spyware-alerts.html",
     "https://thehackernews.com/2025/12/chrome-targeted-by-active-in-wild.html",
     "https://thehackernews.com/2025/12/unpatched-gogs-zero-day-exploited.html",
     "https://thehackernews.com/2025/12/storm-0249-escalates-ransomware-attacks.html",
     "https://thehackernews.com/2025/12/nanoremote-malware-uses-google-drive.html",
     "https://thehackernews.com/2025/11/apt24-deploys-badaudio-in-years-long.html",
     "https://thehackernews.com/2025/08/charon-ransomware-hits-middle-east.html",
     "https://thehackernews.com/2025/12/5-threats-that-reshaped-web-security.html",
     "https://thehackernews.com/2025/12/microsoft-issues-security-fixes-for-56.html",
     "https://thehackernews.com/2025/12/critical-xxe-bug-cve-2025-66516-cvss.html",
     "https://thehackernews.com/2025/11/fortinet-warns-of-new-fortiweb-cve-2025.html",
     "https://thehackernews.com/2025/12/new-advanced-phishing-kits-use-ai-and.html" >>

\* Number of sources of ARTICLE_URLS the model collects from.
NumSources == 2

\* The source list of a run.
Sources == SubSeq(ARTICLE_URLS, 1, NumSources)

\* Python values whose type the program tests (isinstance, is None, truth
\* of a handle) carry their type.
PyDict(r) == [type |-> "dict", value |-> r]
PyList(s) == [type |-> "list", value |-> s]
isinstance(x, t) == x.type = t

\* The six fields of a threat record.
ThreatFields == {"actor", "aliases", "ttps", "targets", "iocs", "timeline"}

MOCK_THREAT_INTEL_LIST ==
  << [actor |-> "Earth Lamia", aliases |-> <<"China-nexus">>, ttps |-> <<"RCE Exploitation">>,
      targets |-> <<"Global Servers">>, iocs |-> <<>>, timeline |-> "Dec 2025"],
     [actor |-> "Jackpot Panda", aliases |-> <<"China-nexus">>, ttps |-> <<"Crypto Mining">>,
      targets |-> <<"Web Infrastructure">>, iocs |-> <<>>, timeline |-> "Dec 2025"],
     [actor |-> "STAC6565", aliases |-> <<"Gold Blade">>, ttps |-> <<"Ransomware Deployment">>,
      targets |-> <<"Canada">>, iocs |-> <<>>, timeline |-> "Dec 2025"],
     [actor |-> "VolkLocker", aliases |-> <<>>, ttps |-> <<"Ransomware">>,
      targets |-> <<"Windows/Linux">>, iocs |-> <<>>, timeline |-> "Dec 2025"],
     [actor |-> "PassiveNeuron", aliases |-> <<"APT">>, ttps |-> <<"Espionage, Neursite">>,
      targets |-> <<"Global">>, iocs |-> <<>>, timeline |-> "Oct 2025"],
     [actor |-> "APT31", aliases |-> <<"Judgement Panda">>, ttps |-> <<"CloudyLoader">>,
      targets |-> <<"Russian IT">>, iocs |-> <<>>, timeline |-> "Nov 2025"],
     [actor |-> "Storm-0249", aliases |-> <<>>, ttps |-> <<"ClickFix, Ransomware">>,
      targets |-> <<"Multiple Sectors">>, iocs |-> <<>>, timeline |-> "Dec 2025"],
     [actor |-> "SideWinder", aliases |-> <<"APT-C-17">>, ttps |-> <<"Phishing">>,
      targets |-> <<"Maritime, Nuclear">>, iocs |-> <<>>, timeline |-> "Mar 2025"],
     [actor |-> "Blind Eagle", aliases |-> <<"APT-C-36">>, ttps |-> <<"RATs, Phishing">>,
      targets |-> <<"Colombia">>, iocs |-> <<>>, timeline |-> "Aug 2025"],
     [actor |-> "Charon", aliases |-> <<>>, ttps |-> <<"Ransomware">>,
      targets |-> <<"Middle East">>, iocs |-> <<>>, timeline |-> "Aug 2025"],
     [actor |-> "Storm-2603", aliases |-> <<>>, ttps |-> <<"LockBit Ransomware">>,
      targets |-> <<"Multiple">>, iocs |-> <<>>, timeline |-> "Oct 2025"],
     [actor |-> "GrayBravo", aliases |-> <<"TAG-150">>, ttps |-> <<"CastleLoader">>,
      targets |-> <<"Multiple Sectors">>, iocs |-> <<>>, timeline |-> "Dec 2025"],
     [actor |-> "Warp Panda", aliases |-> <<"BRICKSTORM">>, ttps |-> <<"Backdoor">>,
      targets |-> <<"Government">>, iocs |-> <<>>, timeline |-> "Dec 2025"],
     [actor |-> "APT41", aliases |-> <<"Brass Typhoon">>, ttps |-> <<"Phishing">>,
      targets |-> <<"US Officials">>, iocs |-> <<>>, timeline |-> "2025"],
     [actor |-> "Aquatic Panda", aliases |-> <<>>, ttps |-> <<"Espionage">>,
      targets |-> <<"Global">>, iocs |-> <<>>, timeline |-> "2025"] >>

(***************************************************************************)
(* str(n) and int(s) on decimal digits                                     *)
(***************************************************************************)

DigitChars == <<"0", "1", "2", "3", "4", "5", "6", "7", "8", "9">>

\* str(n) for n >= 0: the decimal digits of n, most significant first.
RECURSIVE str(_)
str(n) == IF n < 10 THEN <<DigitChars[n + 1]>>
          ELSE str(n \div 10) \o <<DigitChars[(n % 10) + 1]>>

\* Value of one decimal digit character; -1 for any other character.
DigitValue(c) ==
  IF \E d \in 1..10 : DigitChars[d] = c
  THEN (CHOOSE d \in 1..10 : DigitChars[d] = c) - 1
  ELSE -1

\* int(s) for a text of decimal digits (a leading zero is allowed).
RECURSIVE int(_)
int(s) == IF Len(s) = 1 THEN DigitValue(s[1])
          ELSE 10 * int(SubSeq(s, 1, Len(s) - 1)) + DigitValue(s[Len(s)])

(***************************************************************************)
(* Phase 1: data collection                                                *)
(***************************************************************************)

Min(a, b) == IF a < b THEN a ELSE b

\* Longest content kept of a page, and longest content shown in the log.
MaxContent == 10000
MaxPreview == 500

\* The text of a page is known by its length only.  A text cut from it is
\* the page's first `chars` characters followed by `tail`.
PageText(n) == [chars |-> n, tail |-> <<>>]
TextLen(t) == t.chars + Len(t.tail)

\* t[:k] for a text with no tail.
Slice(t, k) == [chars |-> Min(t.chars, k), tail |-> <<>>]

\* The preview with the test len(content) >= 500.
content_preview_inclusive(content) ==
  IF TextLen(content) >= MaxPreview
  THEN [chars |-> Slice(content, MaxPreview).chars, tail |-> <<".", ".", ".">>]
  ELSE content

\* content[:500] + "..." if len(content) > 500 else content
content_preview(content) ==
  IF TextLen(content) > MaxPreview
  THEN [chars |-> Slice(content, MaxPreview).chars, tail |-> <<".", ".", ".">>]
  ELSE content

\* The parsing shared by both collection paths: title from the first h1,
\* else from the title element, else "Title Not Found"; content is the
\* joined paragraphs cut to 10,000 characters.
ParseTitle(page) ==
  IF page.h1 # <<>> THEN Head(page.h1)
  ELSE IF page.title # <<>> THEN Head(page.title) ELSE "Title Not Found"

ParseContent(page) == Slice(PageText(page.paragraphs), MaxContent)

RawDocument(url, page) ==
  [url |-> url, title |-> ParseTitle(page), content |-> ParseContent(page)]

Report(url, page) ==
  [url |-> url, title |-> ParseTitle(page),
   content_preview |-> content_preview(ParseContent(page))]

\* A handler for a narrower class than the errors of the capabilities.
except_KeyError(e) == e.class = "KeyError"

\* Exceptions.  An error of a capability (network, HTTP, quota, vector
\* store) is an Exception; an interrupt of the process (KeyboardInterrupt)
\* is a BaseException only.  `except Exception` catches the first kind.
except_Exception(e) == e.class = "Exception"
NoException == [ok |-> TRUE, class |-> "", error |-> ""]

\* What requests.get + raise_for_status does on one source: it raises, or
\* yields a page with its h1 elements, its title elements and the length
\* of its joined paragraphs.
FetchError(class, msg) ==
  [ok |-> FALSE, class |-> class, error |-> msg, h1 |-> <<>>, title |-> <<>>, paragraphs |-> 0]
FetchPage(h1, title, n) ==
  [ok |-> TRUE, class |-> "", error |-> "", h1 |-> h1, title |-> title, paragraphs |-> n]

\* The primary pass (one try around the whole loop): the state of the loop
\* after source i-1, continued from source i.  It stops at the first source
\* that raises.
RECURSIVE PrimaryPass(_, _, _, _)
PrimaryPass(i, fetched, raw_reports, reports) ==
  IF i > Len(Sources)
  THEN [raised |-> FALSE, exception |-> NoException,
        raw_reports |-> raw_reports, reports |-> reports]
  ELSE IF ~fetched[i].ok
  THEN [raised |-> TRUE, exception |-> fetched[i],
        raw_reports |-> raw_reports, reports |-> reports]
  ELSE PrimaryPass(i + 1, fetched,
                   Append(raw_reports, RawDocument(Sources[i], fetched[i])),
                   Append(reports, Report(Sources[i], fetched[i])))

\* A secondary pass that ends at the first source that raises.
RECURSIVE SecondaryPassAborting(_, _, _, _, _)
SecondaryPassAborting(i, fetched, raw_reports, reports, failed_urls) ==
  IF i > Len(Sources)
  THEN [escaped |-> FALSE, raw_reports |-> raw_reports, reports |-> reports,
        failed_urls |-> failed_urls]
  ELSE IF fetched[i].ok
  THEN SecondaryPassAborting(i + 1, fetched,
                             Append(raw_reports, RawDocument(Sources[i], fetched[i])),
                             Append(reports, Report(Sources[i], fetched[i])),
                             failed_urls)
  ELSE [escaped |-> ~except_Exception(fetched[i]), raw_reports |-> raw_reports,
        reports |-> reports,
        failed_urls |-> Append(failed_urls,
                               [url |-> Sources[i], error |-> fetched[i].error])]

\* The secondary pass (one try per source): a source that raises an
\* Exception is added to failed_urls and the loop goes on; any other error
\* leaves the loop.
RECURSIVE SecondaryPass(_, _, _, _, _)
SecondaryPass(i, fetched, raw_reports, reports, failed_urls) ==
  IF i > Len(Sources)
  THEN [escaped |-> FALSE, raw_reports |-> raw_reports, reports |-> reports,
        failed_urls |-> failed_urls]
  ELSE IF fetched[i].ok
  THEN SecondaryPass(i + 1, fetched,
                     Append(raw_reports, RawDocument(Sources[i], fetched[i])),
                     Append(reports, Report(Sources[i], fetched[i])),
                     failed_urls)
  ELSE IF except_Exception(fetched[i])
  THEN SecondaryPass(i + 1, fetched, raw_reports, reports,
                     Append(failed_urls, [url |-> Sources[i], error |-> fetched[i].error]))
  ELSE [escaped |-> TRUE, raw_reports |-> raw_reports, reports |-> reports,
        failed_urls |-> failed_urls]

\* The handler of the primary pass without its reset.
KeepRawReports(raw_reports) == raw_reports

\* raw_reports = [] in the handler of the primary pass.
ResetRawReports(raw_reports) == <<>>

\* phase1_data_collection: key_set says whether ZENROWS_API_KEY is
\* configured; primary and secondary give what each fetch does, per source.
\* The result holds the returned raw_reports and the phase1 section, or
\* says that an error escaped the function (nothing is recorded then).
phase1_data_collection(key_set, primary, secondary) ==
  LET p == IF key_set THEN PrimaryPass(1, primary, <<>>, <<>>)
           ELSE [raised |-> FALSE, exception |-> NoException,
                 raw_reports |-> <<>>, reports |-> <<>>]
      caught == p.raised /\ except_Exception(p.exception)
      use_zenrows == key_set /\ ~p.raised
      raw1 == IF caught THEN ResetRawReports(p.raw_reports) ELSE p.raw_reports
      s == IF ~use_zenrows /\ (p.raised => caught)
           THEN SecondaryPass(1, secondary, raw1, p.reports, <<>>)
           ELSE [escaped |-> p.raised, raw_reports |-> raw1, reports |-> p.reports,
                 failed_urls |-> <<>>]
      data == [description |-> "Raw collected reports (title, url, content preview)",
               collection_method |->
                 IF use_zenrows THEN "ZenRows API" ELSE "Regular Scraping (requests + BS4)",
               collected_count |-> Len(s.raw_reports),
               reports |-> s.reports,
               failed_urls |-> s.failed_urls]
  IN  [escaped |-> s.escaped,
       raw_reports |-> s.raw_reports,
       phase1_data |-> IF caught THEN data @@ ("error" :> p.exception.error) ELSE data]

(***************************************************************************)
(* Phase 2: information extraction                                         *)
(***************************************************************************)

\* Whether the extraction and the retriever call the text model (USE_LLM is
\* a module-level flag; both of its values are modelled).
LlmFlags == BOOLEAN

\* Response bodies of the text model used in the model.
JsonSix ==
  "{\"actor\": \"APT24\", \"aliases\": [\"Pitty Tiger\"], \"ttps\": [\"BADAUDIO\"], \"targets\": [\"Taiwan\"], \"iocs\": [], \"timeline\": \"Nov 2025\"}"
JsonOtherFields == "{\"actor\": \"APT24\", \"malware\": [\"BADAUDIO\"]}"
JsonArray == "[]"
ChattyJson == "Here is the JSON: {\"actor\": \"APT24\"}"
Prose == "I cannot extract data from this report."

\* json.loads on the trimmed response: the parsed value, or JSONDecodeError.
json_loads(s) ==
  IF s = <<JsonSix>>
  THEN [ok |-> TRUE,
        value |-> PyDict([actor |-> "APT24", aliases |-> <<"Pitty Tiger">>,
                          ttps |-> <<"BADAUDIO">>, targets |-> <<"Taiwan">>,
                          iocs |-> <<>>, timeline |-> "Nov 2025"])]
  ELSE IF s = <<JsonOtherFields>>
  THEN [ok |-> TRUE, value |-> PyDict([actor |-> "APT24", malware |-> <<"BADAUDIO">>])]
  ELSE IF s = <<JsonArray>>
  THEN [ok |-> TRUE, value |-> PyList(<<>>)]
  ELSE [ok |-> FALSE, value |-> None]

\* The wrapper with the response as received, blanks included.
ParseFailedUntrimmed(text) == PyDict([raw |-> text, note |-> "JSON parse failed"])

\* The value stored when the response is not JSON.
ParseFailed(text) == PyDict([raw |-> strip(text), note |-> "JSON parse failed"])

\* json.loads(response.text.strip()), with the JSONDecodeError handler.
extracted_json(text) ==
  LET parsed == json_loads(strip(text))
  IN  IF parsed.ok THEN parsed.value ELSE ParseFailed(text)

\* What llm.generate_content does on one call: it raises, or answers a text.
GenerationError(class, msg) == [ok |-> FALSE, class |-> class, error |-> msg, text |-> <<>>]
GenerationText(t) == [ok |-> TRUE, class |-> "", error |-> "", text |-> t]

Document(report, ti) ==
  [title |-> report.title, source |-> report.url, threat_intelligence |-> ti]

\* An extraction loop that leaves out the reports whose response is not
\* JSON.
RECURSIVE ExtractLoopSkipping(_, _, _, _)
ExtractLoopSkipping(i, raw_reports, generated, docs) ==
  IF i > Len(raw_reports)
  THEN [raised |-> FALSE, exception |-> NoException, documents |-> docs]
  ELSE IF ~generated[i].ok
  THEN [raised |-> TRUE, exception |-> generated[i], documents |-> docs]
  ELSE IF ~json_loads(strip(generated[i].text)).ok
  THEN ExtractLoopSkipping(i + 1, raw_reports, generated, docs)
  ELSE ExtractLoopSkipping(i + 1, raw_reports, generated,
                           Append(docs, Document(raw_reports[i],
                                                 extracted_json(generated[i].text))))

\* The extraction loop (inside one try): it stops at the first call that
\* raises, with the documents appended so far.
RECURSIVE ExtractLoop(_, _, _, _)
ExtractLoop(i, raw_reports, generated, docs) ==
  IF i > Len(raw_reports)
  THEN [raised |-> FALSE, exception |-> NoException, documents |-> docs]
  ELSE IF ~generated[i].ok
  THEN [raised |-> TRUE, exception |-> generated[i], documents |-> docs]
  ELSE ExtractLoop(i + 1, raw_reports, generated,
                   Append(docs, Document(raw_reports[i], extracted_json(generated[i].text))))

\* One document per entry of MOCK_THREAT_INTEL_LIST.
MockDocuments ==
  [idx \in 1..Len(MOCK_THREAT_INTEL_LIST) |->
     [title |-> <<"Mock Threat Report ">> \o str(idx) \o <<" (Recent 2025)">>,
      source |-> "Simulated Feed",
      threat_intelligence |-> PyDict(MOCK_THREAT_INTEL_LIST[idx])]]

\* The substitute path without documents.clear().
documents_kept(docs) == docs

\* documents.clear()
documents_clear(docs) == <<>>

\* phase2_information_extraction: generated gives what each generation call
\* does, per report.  The result holds the returned documents and the
\* phase2 section, or says that an error escaped the function.
phase2_information_extraction(raw_reports, use_llm, generated) ==
  LET primary == use_llm /\ raw_reports # <<>>
      e == IF primary THEN ExtractLoop(1, raw_reports, generated, <<>>)
           ELSE [raised |-> FALSE, exception |-> NoException, documents |-> <<>>]
      caught == e.raised /\ except_Exception(e.exception)
      use_mock == ~primary \/ caught
      substitute == use_mock \/ e.documents = <<>>
      documents == IF substitute THEN documents_clear(e.documents) \o MockDocuments
                   ELSE e.documents
      logged == IF substitute THEN e.documents \o MockDocuments ELSE e.documents
      data == [description |-> "Extracted structured threat intelligence documents",
               used_llm |-> primary,
               used_mock |-> (raw_reports = <<>> \/ ~use_llm) \/ substitute,
               document_count |-> Len(documents),
               documents |-> logged]
  IN  [escaped |-> e.raised /\ ~caught,
       documents |-> documents,
       phase2_data |-> IF caught THEN data @@ ("error" :> e.exception.error) ELSE data]

(***************************************************************************)
(* Phase 3: knowledge base and summary table                               *)
(***************************************************************************)

\* json.dumps(doc): the JSON text of a document (one text per document).
json_dumps(doc) == [json |-> doc]

\* embedding_model.encode(text).tolist(): the vector of a text.
encode(text) == [vector_of |-> text]

\* The handles of phase 3.
SentenceTransformer == [type |-> "SentenceTransformer", name |-> "all-MiniLM-L6-v2"]
EmptyCollection == [type |-> "Collection", name |-> "threat_intel", entries |-> <<>>]

\* An insert that numbers the documents from 1.
collection_add_from_one(collection, idx, doc_str) ==
  [collection EXCEPT !.entries =
     Append(@, [id |-> str(idx + 1), document |-> doc_str, embedding |-> encode(doc_str)])]

\* collection.add(documents=[doc_str], embeddings=[...], ids=[str(idx)])
collection_add(collection, idx, doc_str) ==
  [collection EXCEPT !.entries =
     Append(@, [id |-> str(idx), document |-> doc_str, embedding |-> encode(doc_str)])]

\* What the embedding model and the vector store do during phase 3: fails
\* names the first call that raises ("none", "model", "client",
\* "collection" or "add"), at the document (from 1) whose encode/add
\* raises, class and error what is raised.
IndexOutcome(fails, at, class, msg) ==
  [fails |-> fails, at |-> at, class |-> class, error |-> msg]

\* The insert loop, continued from document i (enumerate counts from 0).
RECURSIVE AddLoop(_, _, _, _)
AddLoop(i, documents, index, collection) ==
  IF i > Len(documents) THEN [raised |-> FALSE, collection |-> collection]
  ELSE IF index.fails = "add" /\ index.at = i
  THEN [raised |-> TRUE, collection |-> collection]
  ELSE AddLoop(i + 1, documents, index,
               collection_add(collection, i - 1, json_dumps(documents[i])))

\* ", ".join(items)
RECURSIVE Join(_)
Join(items) ==
  IF items = <<>> THEN <<>>
  ELSE IF Len(items) = 1 THEN <<items[1]>>
  ELSE <<items[1], ", ">> \o Join(Tail(items))

\* The display entry of the i-th document (i from 1).
DisplayEntry(i, doc) ==
  LET ti == doc.threat_intelligence
      dict == isinstance(ti, "dict")
  IN  [index |-> i,
       actor |-> IF dict THEN DictGet(ti.value, "actor", "Unknown") ELSE "Unknown",
       title |-> doc.title,
       source |-> doc.source,
       aliases |-> IF dict THEN Join(DictGet(ti.value, "aliases", <<>>)) ELSE <<"None">>,
       ttps |-> IF dict THEN Join(DictGet(ti.value, "ttps", <<>>)) ELSE <<"None">>,
       targets |-> IF dict THEN Join(DictGet(ti.value, "targets", <<>>)) ELSE <<"None">>]

\* The handle left in `collection` when phase 3 returns: None until
\* get_or_create_collection has returned, then the collection with the
\* documents added so far.
ReturnedCollection(index, added) ==
  IF index.fails \in {"model", "client", "collection"} THEN None ELSE added

\* phase3_build_knowledge_base: the returned handles and the phase3
\* section, or says that an error escaped the function.  The collection is
\* created by an in-memory client of the process, so it starts empty.
phase3_build_knowledge_base(documents, index) ==
  LET embedding_model == IF index.fails = "model" THEN None ELSE SentenceTransformer
      a == IF index.fails \in {"model", "client", "collection"}
           THEN [raised |-> TRUE, collection |-> None]
           ELSE AddLoop(1, documents, index, EmptyCollection)
      caught == a.raised /\ except_Exception(index)
      entries == IF a.raised THEN <<>>
                 ELSE [i \in 1..Len(documents) |-> DisplayEntry(i, documents[i])]
      data == [description |-> "Knowledge base entries (full list with summary fields)",
               total_entries |-> Len(documents),
               entries |-> entries]
  IN  [escaped |-> a.raised /\ ~caught,
       collection |-> ReturnedCollection(index, a.collection),
       embedding_model |-> embedding_model,
       phase3_data |-> IF caught THEN data @@ ("error" :> index.error) ELSE data]

(***************************************************************************)
(* Phase 4: the retriever                                                  *)
(***************************************************************************)

phase4_data(collection, embedding_model, use_llm) ==
  [description |-> "RAG query system status",
   knowledge_base_available |-> collection # None /\ embedding_model # None,
   llm_available |-> use_llm]

\* The refusal returned when nothing else answers.
InsufficientData == <<"Insufficient data.">>

\* Number of nearest texts asked of the index.
n_results == 3

\* collection.query(..., n_results=3): the texts of at most 3 entries.
collection_query(collection) ==
  [i \in 1..Min(n_results, Len(collection.entries)) |-> collection.entries[i].document]

\* What the embedding model, the index and the text model do during one
\* rag_query call: what encode, query and generate_content each do (a call
\* that is not reached does nothing).
Returns == [ok |-> TRUE, class |-> "", error |-> "", text |-> <<>>]
NotCalled == [ok |-> FALSE, class |-> "", error |-> "not called", text |-> <<>>]
RagOutcome(encoding, querying, generation) ==
  [encoding |-> encoding, querying |-> querying, generation |-> generation]

\* The key looked up in the question table by the exception handler.
normalized(user_query) == lower(user_query)

\* A retriever that looks the question up in the table before anything
\* else, as a branch of its own.
rag_query_table_first(user_query, collection, embedding_model, use_llm, env) ==
  LET in_table == normalized(user_query) \in DOMAIN PREDEFINED_QUESTIONS
      no_kb == collection = None \/ embedding_model = None
      queried == ~in_table /\ ~no_kb /\ env.encoding.ok /\ env.querying.ok
      generated == queried /\ use_llm
      answered == generated /\ env.generation.ok
      exception == IF no_kb THEN [ok |-> FALSE, class |-> "Exception", error |-> "No KB"]
                   ELSE IF ~env.encoding.ok THEN env.encoding
                   ELSE IF ~env.querying.ok THEN env.querying
                   ELSE IF ~use_llm
                   THEN [ok |-> FALSE, class |-> "Exception", error |-> "LLM off"]
                   ELSE env.generation
      caught == ~in_table /\ ~answered /\ except_Exception(exception)
  IN  [query |-> user_query,
       escaped |-> ~in_table /\ ~answered /\ ~caught,
       answer |-> IF in_table THEN PREDEFINED_QUESTIONS[normalized(user_query)]
                  ELSE IF answered THEN strip(env.generation.text)
                  ELSE IF caught THEN InsufficientData
                  ELSE <<>>,
       index_queried |-> ~in_table /\ ~no_kb /\ env.encoding.ok,
       context |-> IF queried THEN collection_query(collection) ELSE <<>>,
       generation_calls |-> IF generated THEN 1 ELSE 0,
       fallback |-> in_table \/ caught]

\* rag_query(user_query) of the closure over collection and embedding_model.
\* The result holds the returned answer and what the call did: whether the
\* index was queried, how many generation calls were issued, whether the
\* handler (the table lookup) ran; or it says that an error escaped.
rag_query(user_query, collection, embedding_model, use_llm, env) ==
  LET no_kb == collection = None \/ embedding_model = None
      encoded == ~no_kb /\ env.encoding.ok
      queried == encoded /\ env.querying.ok
      generated == queried /\ use_llm
      answered == generated /\ env.generation.ok
      exception == IF no_kb THEN [ok |-> FALSE, class |-> "Exception", error |-> "No KB"]
                   ELSE IF ~env.encoding.ok THEN env.encoding
                   ELSE IF ~env.querying.ok THEN env.querying
                   ELSE IF ~use_llm
                   THEN [ok |-> FALSE, class |-> "Exception", error |-> "LLM off"]
                   ELSE env.generation
      caught == ~answered /\ except_Exception(exception)
  IN  [query |-> user_query,
       escaped |-> ~answered /\ ~caught,
       answer |-> IF answered THEN strip(env.generation.text)
                  ELSE IF caught
                  THEN DictGet(PREDEFINED_QUESTIONS, normalized(user_query), InsufficientData)
                  ELSE <<>>,
       index_queried |-> ~no_kb /\ env.encoding.ok,
       context |-> IF queried THEN collection_query(collection) ELSE <<>>,
       generation_calls |-> IF generated THEN 1 ELSE 0,
       fallback |-> caught]

(***************************************************************************)
(* The driver: run number and run log                                      *)
(***************************************************************************)

\* dict[key] = value
DictSet(d, key, value) == (key :> value) @@ d
EmptyDict == [k \in {} |-> k]

ArtifactPrefix == <<"C", "y", "b", "e", "r", "X", " ", "#">>
ArtifactSuffix == <<".", "j", "s", "o", "n">>

\* f"CyberX #{run_number}.json"
filename(n) == ArtifactPrefix \o str(n) \o ArtifactSuffix

\* glob.glob("CyberX #*.json") on one file name.
GlobMatch(f) ==
  /\ Len(f) >= Len(ArtifactPrefix) + Len(ArtifactSuffix)
  /\ SubSeq(f, 1, Len(ArtifactPrefix)) = ArtifactPrefix
  /\ SubSeq(f, Len(f) - Len(ArtifactSuffix) + 1, Len(f)) = ArtifactSuffix

\* Index of the first piece c of s at or after i (Len(s)+1 if none).
RECURSIVE Find(_, _, _)
Find(s, c, i) ==
  IF i > Len(s) THEN i ELSE IF s[i] = c THEN i ELSE Find(s, c, i + 1)

\* s.split(c)[0] and s.split(c)[1]
SplitFirst(s, c) == SubSeq(s, 1, Find(s, c, 1) - 1)
SplitSecond(s, c) ==
  LET a == Find(s, c, 1) + 1
  IN  SubSeq(s, a, Find(s, c, a) - 1)

\* int(f.split("#")[1].split(".")[0])
FileNumber(f) == int(SplitFirst(SplitSecond(f, "#"), "."))

\* max(...) over a non-empty set of numbers
Max(S) == CHOOSE m \in S : \A n \in S : n <= m

\* c in s
Contains(s, c) == Find(s, c, 1) <= Len(s)

\* A run number counted from the number of artifacts instead of their
\* highest number.
CountRunNumber(names) == Cardinality({f \in names : GlobMatch(f)}) + 1

\* The run number chosen at start-up from the names in the directory.
NextRunNumber(names) ==
  LET existing_files == {f \in names : GlobMatch(f)}
  IN  IF existing_files # {}
      THEN Max({FileNumber(f) :
                  f \in {g \in existing_files : Contains(g, "#") /\ Contains(g, ".")}}) + 1
      ELSE 1

(***************************************************************************)
(* What the outside can do                                                 *)
(***************************************************************************)

\* Values of ZENROWS_API_KEY: the placeholder, a blank value, a real key.
ZenRowsPlaceholder == <<"PASTE_YOUR_ZENROWS_API_KEY_HERE">>
ZenRowsKeys == {ZenRowsPlaceholder, <<" ">>, <<"zr-live-key">>}

\* use_zenrows = ZENROWS_API_KEY != placeholder and ZENROWS_API_KEY.strip()
use_zenrows(key) == key # ZenRowsPlaceholder /\ strip(key) # <<>>

\* An interrupt of the process during a call.
Interrupt == "KeyboardInterrupt"

FetchOutcomes ==
  { FetchError("Exception", "HTTPError"),
    FetchError("BaseException", Interrupt),
    FetchPage(<<"Storm-0249 Escalates Ransomware Attacks">>, <<"The Hacker News">>, 12000),
    FetchPage(<<>>, <<>>, 500),
    FetchPage(<<>>, <<"The Hacker News">>, 501) }

GenerationOutcomes ==
  { GenerationError("Exception", "quota exceeded"),
    GenerationError("BaseException", Interrupt),
    GenerationText(<<"\n", JsonSix, "\n">>),
    GenerationText(<<JsonOtherFields>>),
    GenerationText(<<JsonArray>>),
    GenerationText(<<ChattyJson, "\n">>) }

\* The documents at which an insert is made to fail: first, middle, last.
AddPositions(n) == {1, (n + 1) \div 2, n} \cap (1..n)

IndexOutcomes(n) ==
  { IndexOutcome("none", 0, "", ""),
    IndexOutcome("model", 0, "Exception", "model download failed"),
    IndexOutcome("client", 0, "Exception", "chroma unavailable"),
    IndexOutcome("collection", 0, "Exception", "collection error") }
  \cup { IndexOutcome("add", k, "Exception", "embedding failed") : k \in AddPositions(n) }
  \cup { IndexOutcome("add", k, "BaseException", Interrupt) : k \in AddPositions(n) }

RagOutcomes ==
  { RagOutcome(GenerationError("Exception", "encode failed"), NotCalled, NotCalled),
    RagOutcome(Returns, GenerationError("Exception", "query failed"), NotCalled),
    RagOutcome(Returns, Returns, GenerationError("Exception", "quota exceeded")),
    RagOutcome(Returns, Returns, GenerationError("BaseException", Interrupt)),
    RagOutcome(Returns, Returns,
               GenerationText(<<" ", "APT41 targets US officials.", "\n">>)),
    RagOutcome(Returns, Returns, GenerationText(InsufficientData)) }

\* Questions put to the retriever, and lines typed at the prompt.
Questions ==
  { KeyChinaNexus, KeyRansomware, KeyMedusa, KeyApt31,
    TypedChinaNexus, TypedApt31, Padded(KeyApt31), Padded(TypedChinaNexus),
    TypedApt41, Padded(TypedApt41), <<>>,
    TypedExit, TypedQuit, TypedExitUpper, TypedQuitMixed, Padded(TypedExitUpper),
    TypedExits }

\* Most lines read by one session.
MaxInputs == 2

\* Most processes started in one directory.
MaxRuns == 3

\* CyberX artifacts a directory holds at the start, by their numbers.
InitialArtifacts == { {}, {1}, {1, 2, 3, 4}, {9, 10} }

\* A file that is not a run log.
OtherFile == <<"n", "o", "t", "e", "s", ".", "j", "s", "o", "n">>

\* A directory with the artifacts numbered in S, each holding its own run
\* number, beside another file.
Directory(S) ==
  [f \in {filename(n) : n \in S} \cup {OtherFile} |->
     IF f = OtherFile THEN [run_number |-> 0, complete |-> TRUE]
     ELSE [run_number |-> FileNumber(f), complete |-> TRUE]]

(***************************************************************************)
(* State                                                                   *)
(***************************************************************************)

VARIABLES
  pc,               \* where the process is
  USE_LLM,          \* the module-level flag
  ZENROWS_API_KEY,  \* the configured key
  directory,        \* the working directory: file name -> what the file holds
  history,          \* the run numbers of the processes that ended before
  run_number,       \* __main__: run_number
  all_phase_data,   \* __main__: all_phase_data (the run log)
  raw_reports,      \* __main__: raw_reports
  documents,        \* __main__: documents
  collection,       \* __main__: collection
  embedding_model,  \* __main__: embedding_model
  phase5_data,      \* phase5_cli_interface: phase5_data
  outside,          \* what the outside did in phases 1 to 3 of this process
  inputs,           \* the lines read at the prompt
  rag_calls,        \* the rag_query calls made, with their results
  printed,          \* the answers printed
  saves,            \* the save_run_json calls made, with their outcome
  unhandled         \* the stage an unhandled error came out of, or "none"

vars ==
  << pc, USE_LLM, ZENROWS_API_KEY, directory, history, run_number, all_phase_data,
     raw_reports, documents, collection, embedding_model, phase5_data, outside,
     inputs, rag_calls, printed, saves, unhandled >>

config == << USE_LLM, ZENROWS_API_KEY >>
locals == << raw_reports, documents, collection, embedding_model, phase5_data >>
session == << inputs, rag_calls, printed >>

NoOutside == [primary |-> <<>>, secondary |-> <<>>, generated |-> <<>>,
              index |-> IndexOutcome("not called", 0, "", "")]

\* The variables of a process that has just started.
Fresh ==
  /\ run_number = 0
  /\ all_phase_data = None
  /\ raw_reports = <<>>
  /\ documents = <<>>
  /\ collection = None
  /\ embedding_model = None
  /\ phase5_data = None
  /\ outside = NoOutside
  /\ inputs = <<>>
  /\ rag_calls = <<>>
  /\ printed = <<>>
  /\ saves = <<>>
  /\ unhandled = "none"

\* The start of the program under environment E: its configuration and the
\* directory it runs in.
InitOf(E) ==
  /\ pc = "start"
  /\ USE_LLM \in E.flags
  /\ ZENROWS_API_KEY \in E.keys
  /\ directory \in {Directory(S) : S \in E.artifacts}
  /\ history = <<>>
  /\ Fresh

\* The calls a loop makes before it stops: the outcomes of n calls at most,
\* every one but the last a success, the last a failure unless n is reached.
CallsOf(outcomes, n) ==
  UNION { {s \in [1..k -> outcomes] :
             /\ \A i \in 1..(k - 1) : s[i].ok
             /\ k < n => ~s[k].ok} : k \in 1..n }

\* The calls of a loop with a handler per call: n calls, unless an error
\* that the handler does not catch ends it.
IsolatedCallsOf(outcomes, n) ==
  UNION { {s \in [1..k -> outcomes] :
             /\ \A i \in 1..(k - 1) : s[i].ok \/ except_Exception(s[i])
             /\ k < n => ~(s[k].ok \/ except_Exception(s[k]))} : k \in 1..n }

(***************************************************************************)
(* The process                                                             *)
(***************************************************************************)

\* __main__ up to the try: the run number and the empty run log.
Start ==
  /\ pc = "start"
  /\ run_number' = NextRunNumber(DOMAIN directory)
  /\ all_phase_data' = [run_number |-> run_number', phases |-> EmptyDict]
  /\ pc' = "phase1"
  /\ UNCHANGED <<config, directory, history, locals, outside, session, saves, unhandled>>

\* A stage returned r and recorded its section, or an error escaped it and
\* the driver goes to its finally block.
StageEnds(stage, r, section, next) ==
  /\ pc' = IF r.escaped THEN "finally" ELSE next
  /\ unhandled' = IF r.escaped THEN stage ELSE unhandled
  /\ all_phase_data' = IF r.escaped THEN all_phase_data
                       ELSE [all_phase_data EXCEPT !.phases = DictSet(@, stage, section)]

\* raw_reports = phase1_data_collection(all_phase_data["phases"])
Phase1(primary, secondary) ==
  /\ pc = "phase1"
  /\ LET r == phase1_data_collection(use_zenrows(ZENROWS_API_KEY), primary, secondary)
     IN  /\ StageEnds("phase1", r, r.phase1_data, "phase2")
         /\ raw_reports' = IF r.escaped THEN raw_reports ELSE r.raw_reports
  /\ outside' = [outside EXCEPT !.primary = primary, !.secondary = secondary]
  /\ UNCHANGED <<config, directory, history, run_number, documents, collection,
                 embedding_model, phase5_data, session, saves>>

\* documents = phase2_information_extraction(raw_reports, all_phase_data["phases"])
Phase2(generated) ==
  /\ pc = "phase2"
  /\ LET r == phase2_information_extraction(raw_reports, USE_LLM, generated)
     IN  /\ StageEnds("phase2", r, r.phase2_data, "phase3")
         /\ documents' = IF r.escaped THEN documents ELSE r.documents
  /\ outside' = [outside EXCEPT !.generated = generated]
  /\ UNCHANGED <<config, directory, history, run_number, raw_reports, collection,
                 embedding_model, phase5_data, session, saves>>

\* collection, embedding_model = phase3_build_knowledge_base(documents, ...)
Phase3(index) ==
  /\ pc = "phase3"
  /\ LET r == phase3_build_knowledge_base(documents, index)
     IN  /\ StageEnds("phase3", r, r.phase3_data, "phase4")
         /\ collection' = IF r.escaped THEN collection ELSE r.collection
         /\ embedding_model' = IF r.escaped THEN embedding_model ELSE r.embedding_model
  /\ outside' = [outside EXCEPT !.index = index]
  /\ UNCHANGED <<config, directory, history, run_number, raw_reports, documents,
                 phase5_data, session, saves>>

\* rag_query_func = phase4_rag_query_setup(collection, embedding_model, ...)
Phase4 ==
  /\ pc = "phase4"
  /\ StageEnds("phase4", [escaped |-> FALSE],
               phase4_data(collection, embedding_model, USE_LLM), "phase5")
  /\ UNCHANGED <<config, directory, history, run_number, locals, outside, session, saves>>

\* phase5_cli_interface up to its loop: the session record and the menu.
Phase5 ==
  /\ pc = "phase5"
  /\ phase5_data' =
       [description |-> "CyberX AI B&A Session Session",
        status |-> "running",
        queries |-> <<>>]
       @@ ("b&a_questions" :> <<KeyChinaNexus, KeyRansomware, KeyMedusa, KeyApt31>>)
  /\ pc' = "prompt"
  /\ UNCHANGED <<config, directory, history, run_number, all_phase_data, raw_reports,
                 documents, collection, embedding_model, outside, session, saves,
                 unhandled>>

TerminationKeywords == {TypedExit, TypedQuit}

\* The keyword test without lower().
IsTerminationExact(query) == query \in TerminationKeywords

\* query.lower() in ["exit", "quit"]
IsTermination(query) == lower(query) \in TerminationKeywords

\* The table test without lower().
IsPredefinedExact(query) == query \in DOMAIN PREDEFINED_QUESTIONS

\* normalized in PREDEFINED_QUESTIONS, with normalized = query.lower()
IsPredefined(query) == lower(query) \in DOMAIN PREDEFINED_QUESTIONS

\* A turn of the loop that logs the query only when it goes to rag_query:
\* the questions answered from the table are not logged.
SessionInputLoggingLate(line, env) ==
  /\ pc = "prompt"
  /\ Len(inputs) < MaxInputs
  /\ inputs' = Append(inputs, line)
  /\ LET query == strip(line)
         r == rag_query(query, collection, embedding_model, USE_LLM, env)
     IN  IF lower(query) \in {TypedExit, TypedQuit}
         THEN /\ phase5_data' = [phase5_data EXCEPT !.status = "completed"]
              /\ all_phase_data' =
                   [all_phase_data EXCEPT !.phases = DictSet(@, "phase5", phase5_data')]
              /\ pc' = "finally"
              /\ UNCHANGED <<rag_calls, printed, unhandled>>
         ELSE IF lower(query) \in DOMAIN PREDEFINED_QUESTIONS
         THEN /\ printed' = Append(printed, PREDEFINED_QUESTIONS[lower(query)])
              /\ UNCHANGED <<phase5_data, rag_calls, pc, unhandled, all_phase_data>>
         ELSE /\ phase5_data' = [phase5_data EXCEPT !.queries = Append(@, query)]
              /\ rag_calls' = Append(rag_calls, [outside |-> env, result |-> r])
              /\ printed' = IF r.escaped THEN printed ELSE Append(printed, r.answer)
              /\ pc' = IF r.escaped THEN "finally" ELSE pc
              /\ unhandled' = IF r.escaped THEN "phase5" ELSE unhandled
              /\ UNCHANGED all_phase_data
  /\ UNCHANGED <<config, directory, history, run_number, raw_reports, documents,
                 collection, embedding_model, outside, saves>>

\* One turn of the loop of phase5_cli_interface on a line read at the
\* prompt; env is what the outside does if rag_query is called.
SessionInput(line, env) ==
  /\ pc = "prompt"
  /\ Len(inputs) < MaxInputs
  /\ inputs' = Append(inputs, line)
  /\ LET query == strip(line)
         r == rag_query(query, collection, embedding_model, USE_LLM, env)
     IN  IF IsTermination(query)
         THEN /\ phase5_data' = [phase5_data EXCEPT !.status = "completed"]
              /\ all_phase_data' =
                   [all_phase_data EXCEPT !.phases = DictSet(@, "phase5", phase5_data')]
              /\ pc' = "finally"
              /\ UNCHANGED <<rag_calls, printed, unhandled>>
         ELSE /\ phase5_data' = [phase5_data EXCEPT !.queries = Append(@, query)]
              /\ IF IsPredefined(query)
                 THEN /\ printed' = Append(printed, PREDEFINED_QUESTIONS[lower(query)])
                      /\ UNCHANGED <<rag_calls, pc, unhandled, all_phase_data>>
                 ELSE /\ rag_calls' = Append(rag_calls, [outside |-> env, result |-> r])
                      /\ printed' = IF r.escaped THEN printed ELSE Append(printed, r.answer)
                      /\ pc' = IF r.escaped THEN "finally" ELSE pc
                      /\ unhandled' = IF r.escaped THEN "phase5" ELSE unhandled
                      /\ UNCHANGED all_phase_data
  /\ UNCHANGED <<config, directory, history, run_number, raw_reports, documents,
                 collection, embedding_model, outside, saves>>

\* input() raises (end of input, or an interrupt at the prompt): the error
\* leaves phase5_cli_interface before it records its section.
InputRaises ==
  /\ pc = "prompt"
  /\ pc' = "finally"
  /\ unhandled' = "phase5"
  /\ UNCHANGED <<config, directory, history, run_number, all_phase_data, locals,
                 outside, session, saves>>

\* What writing the file does.
WriteOutcomes == {"written", "open failed", "dump failed"}

\* The directory after save_run_json: open(filename, "w") creates or
\* empties the file, json.dump fills it.
Saved(dir, run, data, outcome) ==
  IF outcome = "open failed" THEN dir
  ELSE DictSet(dir, filename(run),
               [run_number |-> data.run_number, complete |-> outcome = "written"])

\* The save placed after the last stage instead of in a finally block: a
\* run that an error ends saves nothing.
SaveAfterStages(outcome) ==
  /\ pc = "finally"
  /\ directory' = IF unhandled = "none"
                  THEN Saved(directory, run_number, all_phase_data, outcome)
                  ELSE directory
  /\ saves' = IF unhandled = "none"
              THEN Append(saves, [filename |-> filename(run_number),
                                  data |-> all_phase_data,
                                  outcome |-> outcome,
                                  existed |-> filename(run_number) \in DOMAIN directory])
              ELSE saves
  /\ pc' = "exited"
  /\ UNCHANGED <<config, history, run_number, all_phase_data, locals, outside, session,
                 unhandled>>

\* The finally block: save_run_json(run_number, all_phase_data), whose
\* handler reports a failed write; then the process ends.
Finally(outcome) ==
  /\ pc = "finally"
  /\ directory' = Saved(directory, run_number, all_phase_data, outcome)
  /\ saves' = Append(saves, [filename |-> filename(run_number), data |-> all_phase_data,
                             outcome |-> outcome,
                             existed |-> filename(run_number) \in DOMAIN directory])
  /\ pc' = "exited"
  /\ UNCHANGED <<config, history, run_number, all_phase_data, locals, outside, session,
                 unhandled>>

\* The program is started again in the same directory.
NextProcess ==
  /\ pc = "exited"
  /\ Len(history) + 1 < MaxRuns
  /\ history' = Append(history, [run_number |-> run_number,
                                 written |-> saves # <<>> /\ saves[1].outcome # "open failed",
                                 documents |-> documents,
                                 indexed |-> outside.index.fails = "none",
                                 collection |-> collection])
  /\ pc' = "start"
  /\ run_number' = 0
  /\ all_phase_data' = None
  /\ raw_reports' = <<>>
  /\ documents' = <<>>
  /\ collection' = None
  /\ embedding_model' = None
  /\ phase5_data' = None
  /\ outside' = NoOutside
  /\ inputs' = <<>>
  /\ rag_calls' = <<>>
  /\ printed' = <<>>
  /\ saves' = <<>>
  /\ unhandled' = "none"
  /\ UNCHANGED <<config, directory>>

\* rag_query_func(line) called on its own, once phase 4 has returned it.
DirectQuery(line, env) ==
  /\ pc = "phase5"
  /\ rag_calls' = Append(rag_calls,
       [outside |-> env,
        result |-> rag_query(line, collection, embedding_model, USE_LLM, env)])
  /\ pc' = "returned"
  /\ UNCHANGED <<config, directory, history, run_number, all_phase_data, locals, outside,
                 inputs, printed, saves, unhandled>>

(***************************************************************************)
(* Environments and specifications                                         *)
(*                                                                         *)
(* An environment E names what the outside may do: the configurations and  *)
(* directories the program starts in, and the outcomes of its fetches,     *)
(* generations, index calls, retriever calls, typed lines and writes.      *)
(* Every specification runs the same program; each gives full range to    *)
(* the part of the outside it studies and a narrow range to the rest.      *)
(***************************************************************************)

Collect(E) ==
  \E primary \in IF use_zenrows(ZENROWS_API_KEY)
                 THEN CallsOf(E.fetch, Len(Sources)) ELSE {<<>>} :
    \E secondary \in IF use_zenrows(ZENROWS_API_KEY) /\ primary[Len(primary)].ok
                     THEN {<<>>}
                     ELSE IF use_zenrows(ZENROWS_API_KEY)
                             /\ ~except_Exception(primary[Len(primary)])
                     THEN {<<>>}
                     ELSE IsolatedCallsOf(E.fetch, Len(Sources)) :
      Phase1(primary, secondary)

Extract(E) ==
  \E generated \in IF USE_LLM /\ raw_reports # <<>>
                   THEN CallsOf(E.generation, Len(raw_reports)) ELSE {<<>>} :
    Phase2(generated)

Index(E) ==
  \E index \in {o \in IndexOutcomes(Len(documents)) :
                  [fails |-> o.fails, class |-> o.class] \in E.index} :
    Phase3(index)

Ask(E) == \E line \in E.lines, env \in E.rag : SessionInput(line, env)

Query(E) == \E line \in E.lines, env \in E.rag : DirectQuery(line, env)

Save(E) == \E outcome \in E.writes : Finally(outcome)

\* Kinds of index outcome.
IndexWorks == [fails |-> "none", class |-> ""]
IndexFails(call) == [fails |-> call, class |-> "Exception"]
IndexInterrupted == [fails |-> "add", class |-> "BaseException"]

\* Kinds of retriever call.
RagEncodeFails == RagOutcome(GenerationError("Exception", "encode failed"), NotCalled, NotCalled)
RagAnswers ==
  RagOutcome(Returns, Returns, GenerationText(<<" ", "APT41 targets US officials.", "\n">>))
RagInterrupted == RagOutcome(Returns, Returns, GenerationError("BaseException", Interrupt))

HttpError == FetchError("Exception", "HTTPError")
LongPage ==
  FetchPage(<<"Storm-0249 Escalates Ransomware Attacks">>, <<"The Hacker News">>, 12000)

\* The narrow environment: one configuration, an empty directory, every
\* call succeeds, the user types exit.
Calm ==
  [flags |-> {TRUE},
   keys |-> {<<"zr-live-key">>},
   artifacts |-> {{}},
   fetch |-> {LongPage},
   generation |-> {GenerationText(<<"\n", JsonSix, "\n">>)},
   index |-> {IndexWorks},
   rag |-> {RagOutcome(Returns, Returns, GenerationText(InsufficientData))},
   lines |-> {TypedExit},
   writes |-> {"written"}]

\* The whole run, every capability failing or not.
DriverEnv ==
  [Calm EXCEPT
     !.flags = LlmFlags,
     !.keys = {ZenRowsPlaceholder, <<"zr-live-key">>},
     !.fetch = {HttpError, FetchError("BaseException", Interrupt), LongPage},
     !.generation = {GenerationError("Exception", "quota exceeded"),
                     GenerationError("BaseException", Interrupt),
                     GenerationText(<<"\n", JsonSix, "\n">>)},
     !.index = {IndexWorks, IndexFails("model"), IndexFails("client"),
                IndexFails("collection"), IndexFails("add"), IndexInterrupted},
     !.rag = {RagAnswers, RagInterrupted},
     !.lines = {TypedExit, TypedApt41},
     !.writes = WriteOutcomes]

\* The program under environment E, run once.
NextOf(E) ==
  \/ Start
  \/ Collect(E)
  \/ Extract(E)
  \/ Index(E)
  \/ Phase4
  \/ Phase5
  \/ Ask(E)
  \/ InputRaises
  \/ Save(E)

\* The pipeline under every failure of its capabilities (no interrupt of
\* the process).  The program is sequential and every call it makes
\* returns or raises, so the process always takes its next step.
PipelineEnv ==
  [DriverEnv EXCEPT
     !.fetch = {HttpError, LongPage},
     !.generation = {GenerationError("Exception", "quota exceeded"),
                     GenerationText(<<"\n", JsonSix, "\n">>)},
     !.index = {IndexWorks, IndexFails("model"), IndexFails("client"),
                IndexFails("collection"), IndexFails("add")}]
InitPipeline == InitOf(PipelineEnv)
NextPipeline == NextOf(PipelineEnv)
SpecPipeline == InitPipeline /\ [][NextPipeline]_vars /\ WF_vars(NextPipeline)

Init == InitOf(DriverEnv)
Next == NextOf(DriverEnv)
Spec == Init /\ [][Next]_vars

\* The collector under every fetch outcome and every key.
CollectorEnv == [Calm EXCEPT !.keys = ZenRowsKeys, !.fetch = FetchOutcomes]
InitCollector == InitOf(CollectorEnv)
NextCollector == NextOf(CollectorEnv)
SpecCollector == InitCollector /\ [][NextCollector]_vars

\* The extractor under every generation outcome.
ExtractorEnv ==
  [Calm EXCEPT
     !.flags = LlmFlags,
     !.keys = {ZenRowsPlaceholder, <<"zr-live-key">>},
     !.fetch = {HttpError, LongPage},
     !.generation = GenerationOutcomes]
InitExtractor == InitOf(ExtractorEnv)
NextExtractor == NextOf(ExtractorEnv)
SpecExtractor == InitExtractor /\ [][NextExtractor]_vars

\* The retriever called on its own with every question, over the handles
\* that phase 3 can return.
RetrieverEnv ==
  [Calm EXCEPT
     !.flags = LlmFlags,
     !.generation = {GenerationError("Exception", "quota exceeded"),
                     GenerationText(<<"\n", JsonSix, "\n">>)},
     !.index = {IndexWorks, IndexFails("model"), IndexFails("client"), IndexFails("add")},
     !.rag = RagOutcomes,
     !.lines = Questions]
InitRetriever == InitOf(RetrieverEnv)
NextRetriever ==
  \/ Start
  \/ Collect(RetrieverEnv)
  \/ Extract(RetrieverEnv)
  \/ Index(RetrieverEnv)
  \/ Phase4
  \/ Query(RetrieverEnv)
SpecRetriever == InitRetriever /\ [][NextRetriever]_vars

\* The session under every typed line and every retriever outcome.
SessionEnv ==
  [Calm EXCEPT
     !.flags = LlmFlags,
     !.index = {IndexWorks, IndexFails("model")},
     !.rag = {RagEncodeFails, RagAnswers, RagInterrupted},
     !.lines = Questions]
InitSession == InitOf(SessionEnv)
NextSession == NextOf(SessionEnv)
SpecSession == InitSession /\ [][NextSession]_vars

\* The program started again and again in one directory.
RunsEnv == [Calm EXCEPT !.artifacts = InitialArtifacts, !.writes = WriteOutcomes]
InitRuns == InitOf(RunsEnv)
NextRuns == NextOf(RunsEnv) \/ NextProcess
SpecRuns == InitRuns /\ [][NextRuns]_vars

\* The indexer under every index outcome, over extracted and built-in
\* documents, in a program that is started again (each process has its own
\* in-memory client, so its own collection).
IndexerEnv ==
  [Calm EXCEPT
     !.flags = LlmFlags,
     !.generation = {GenerationError("Exception", "quota exceeded"),
                     GenerationText(<<"\n", JsonSix, "\n">>)},
     !.index = {IndexWorks, IndexFails("add")}]
InitIndexer == InitOf(IndexerEnv)
NextIndexer == NextOf(IndexerEnv) \/ NextProcess
SpecIndexer == InitIndexer /\ [][NextIndexer]_vars

(***************************************************************************)
(* Properties                                                              *)
(***************************************************************************)

\* The sections recorded in the run log.
Sections == IF all_phase_data = None THEN {} ELSE DOMAIN all_phase_data.phases
Section(stage) == all_phase_data.phases[stage]

\* A stage has returned to the driver.
Returned(stage) == stage \in Sections

\* The table key a question stands for once lower-cased and trimmed.
TableKey(question) == lower(strip(question))

\* C1: whenever tier 1 of the retriever fails with an error of a capability
\* (a handle is absent, encode, query or generation raises, or generation
\* is disabled), rag_query returns without raising, and it returns the
\* table's answer when the lower-cased, trimmed question is a table key and
\* "Insufficient data." when it is not.
C1_RetrieverFallback ==
  \A k \in 1..Len(rag_calls) :
    LET r == rag_calls[k].result
        o == rag_calls[k].outside
    IN  /\ r.escaped =>
             \E c \in {o.encoding, o.querying, o.generation} : c.class = "BaseException"
        /\ r.fallback =>
             r.answer = IF TableKey(r.query) \in DOMAIN PREDEFINED_QUESTIONS
                        THEN PREDEFINED_QUESTIONS[TableKey(r.query)]
                        ELSE InsufficientData

\* The lines read so far that are neither a table key nor a termination
\* keyword once lower-cased and trimmed.
IsKeyLine(line) == TableKey(line) \in DOMAIN PREDEFINED_QUESTIONS
IsStopLine(line) == TableKey(line) \in TerminationKeywords
IsOpenLine(line) == ~IsKeyLine(line) /\ ~IsStopLine(line)
OpenLines == SelectSeq(inputs, IsOpenLine)

\* C2: every line read whose lower-cased, trimmed text is a table key has
\* its canned answer printed and causes no rag_query call; rag_query is
\* called exactly once, in order, for each line that is neither a table key
\* nor a termination keyword.
C2_SessionBypass ==
  /\ Len(rag_calls) = Len(OpenLines)
  /\ \A k \in 1..Len(rag_calls) : rag_calls[k].result.query = strip(OpenLines[k])
  /\ \A i \in 1..Len(inputs) :
       IsKeyLine(inputs[i]) =>
         /\ Len(printed) >= i
         /\ printed[i] = PREDEFINED_QUESTIONS[TableKey(inputs[i])]

\* C2 witness: a key typed with capitals and blanks was answered from the
\* table after another question went to the retriever.
C2_Witness ==
  /\ Len(inputs) = 2
  /\ IsOpenLine(inputs[1])
  /\ inputs[2] = Padded(TypedChinaNexus)
  /\ Len(rag_calls) = 1
  /\ printed[2] = AnswerChinaNexus

\* C8: the session starts with status "running"; the first line whose
\* trimmed, lower-cased text is "exit" or "quit" stops the loop (nothing is
\* read after it, rag_query is not called for it) and sets the status to
\* "completed"; the status is "completed" only after such a line.
C8_SessionTermination ==
  /\ pc = "prompt" /\ inputs = <<>> => phase5_data.status = "running"
  /\ \A i \in 1..Len(inputs) : IsStopLine(inputs[i]) => i = Len(inputs)
  /\ phase5_data # None =>
       /\ phase5_data.status \in {"running", "completed"}
       /\ phase5_data.status = "completed" <=>
            (inputs # <<>> /\ IsStopLine(inputs[Len(inputs)]))
  /\ inputs # <<>> /\ IsStopLine(inputs[Len(inputs)]) =>
       /\ pc # "prompt"
       /\ \A k \in 1..Len(rag_calls) : ~IsStopLine(rag_calls[k].result.query)
       /\ Len(rag_calls) <= Len(inputs) - 1

\* C8 witness: the session ended on " EXIT " typed after a question.
C8_Witness ==
  /\ Len(inputs) = 2
  /\ inputs[2] = Padded(TypedExitUpper)
  /\ Len(rag_calls) = 1
  /\ phase5_data.status = "completed"
  /\ pc = "exited"

\* The last call a loop made.
Last(s) == s[Len(s)]

\* The primary pass of this run was ended by an error of the capability.
PrimaryAborted ==
  /\ use_zenrows(ZENROWS_API_KEY)
  /\ outside.primary # <<>>
  /\ ~Last(outside.primary).ok
  /\ Last(outside.primary).class = "Exception"

\* The documents of the sources that the fetches `fetched` answered with a
\* page, in the order of the source list, from source i on.
RECURSIVE PagesFrom(_, _)
PagesFrom(i, fetched) ==
  IF i > Len(fetched) THEN <<>>
  ELSE IF fetched[i].ok
  THEN <<[url |-> Sources[i],
          title |-> IF fetched[i].h1 # <<>> THEN fetched[i].h1[1]
                    ELSE IF fetched[i].title # <<>> THEN fetched[i].title[1]
                    ELSE "Title Not Found",
          content |-> [chars |-> IF fetched[i].paragraphs > 10000 THEN 10000
                                 ELSE fetched[i].paragraphs,
                       tail |-> <<>>]]>> \o PagesFrom(i + 1, fetched)
  ELSE PagesFrom(i + 1, fetched)

\* C3: when the primary fetch is selected and a source raises an error of
\* the capability at any position, phase 1 returns no document of the
\* primary pass: the secondary pass is run over the whole source list from
\* the first source, the returned documents are exactly those of the
\* secondary pass, and the method recorded is the fallback method.
C3_CollectorFallback ==
  Returned("phase1") /\ PrimaryAborted =>
    /\ Len(outside.secondary) = Len(Sources)
    /\ raw_reports = PagesFrom(1, outside.secondary)
    /\ Section("phase1").collection_method = "Regular Scraping (requests + BS4)"
    /\ Section("phase1").collected_count = Len(raw_reports)

\* C3 witness: the primary pass collected the first source and failed on
\* the second; the secondary pass then collected only the second source.
C3_Witness ==
  /\ Returned("phase1")
  /\ PrimaryAborted
  /\ Len(outside.primary) = 2
  /\ outside.primary[1].ok
  /\ ~outside.secondary[1].ok
  /\ outside.secondary[2].ok
  /\ Len(raw_reports) = 1
  /\ raw_reports[1].url = Sources[2]

\* The primary path of the extractor was taken, and how it ended.
ExtractionTried == USE_LLM /\ raw_reports # <<>>
ExtractionCompleted ==
  /\ ExtractionTried
  /\ Len(outside.generated) = Len(raw_reports)
  /\ \A i \in 1..Len(outside.generated) : outside.generated[i].ok
ExtractionAborted ==
  /\ ExtractionTried
  /\ outside.generated # <<>>
  /\ ~Last(outside.generated).ok
  /\ Last(outside.generated).class = "Exception"

\* The substitute condition of the extractor.
Substituted == ~USE_LLM \/ raw_reports = <<>> \/ ExtractionAborted

\* C4: document_count is the length of the returned documents; it is the
\* number of raw documents when the primary path runs to the end, and the
\* documents are exactly the 15 built-in ones, none partially extracted
\* remaining, when the flag is off, the input is empty, or a generation
\* call raises an error of the capability on any document.
C4_ExtractorAllOrNothing ==
  Returned("phase2") =>
    /\ Section("phase2").document_count = Len(documents)
    /\ ExtractionCompleted => Len(documents) = Len(raw_reports)
    /\ Substituted =>
         /\ Len(documents) = 15
         /\ \A k \in 1..15 :
              /\ documents[k].source = "Simulated Feed"
              /\ documents[k].threat_intelligence = PyDict(MOCK_THREAT_INTEL_LIST[k])
              /\ documents[k].title =
                   <<"Mock Threat Report ">> \o str(k) \o <<" (Recent 2025)">>

\* C4 witness: the second generation call raised after the first document
\* had been extracted, and phase 2 returned the built-in documents.
C4_Witness ==
  /\ Returned("phase2")
  /\ ExtractionAborted
  /\ Len(outside.generated) = 2
  /\ outside.generated[1].ok
  /\ Len(documents) = 15

\* A record with exactly the six fields of a threat record.
HasSixFields(ti) == isinstance(ti, "dict") /\ DOMAIN ti.value = ThreatFields

\* C5 as stated: every document of the extractor, on the generative path
\* (whatever the response) and on the substitute path, carries a
\* threat_intelligence record with exactly the six fields.
C5_UniformShape ==
  Returned("phase2") =>
    \A k \in 1..Len(documents) : HasSixFields(documents[k].threat_intelligence)

\* C5 amended: on the substitute path every record has exactly the six
\* fields; on the generative path the record is the value the trimmed
\* response parses to, stored as it is (six fields only when the response
\* has them), or, when the response is not JSON, a wrapper of exactly two
\* fields: raw, the trimmed response, and note, "JSON parse failed".
C5_ShapeByPath ==
  Returned("phase2") =>
    /\ Substituted =>
         \A k \in 1..Len(documents) : HasSixFields(documents[k].threat_intelligence)
    /\ ExtractionCompleted =>
         \A k \in 1..Len(documents) :
           LET ti == documents[k].threat_intelligence
               response == strip(outside.generated[k].text)
               parsed == json_loads(response)
           IN  IF parsed.ok
               THEN ti = parsed.value
               ELSE /\ isinstance(ti, "dict")
                    /\ DOMAIN ti.value = {"raw", "note"}
                    /\ ti.value.raw = response
                    /\ ti.value.note = "JSON parse failed"

\* C5 witness: a run whose documents came from a response with other
\* fields and from a response that is not JSON.
C5_Witness ==
  /\ Returned("phase2")
  /\ ExtractionCompleted
  /\ Len(documents) = 2
  /\ DOMAIN documents[1].threat_intelligence.value = {"actor", "malware"}
  /\ isinstance(documents[2].threat_intelligence, "dict")
  /\ DOMAIN documents[2].threat_intelligence.value = {"raw", "note"}

PipelineStages == {"phase1", "phase2", "phase3", "phase4"}

\* Stages 1 to 4 run in order, each records its section before the next
\* starts, and no error comes out of any of them.
StagesInOrder ==
  /\ unhandled \notin PipelineStages
  /\ pc = "phase1" => Sections = {}
  /\ pc = "phase2" => Sections = {"phase1"}
  /\ pc = "phase3" => Sections = {"phase1", "phase2"}
  /\ pc = "phase4" => Sections = {"phase1", "phase2", "phase3"}
  /\ pc = "phase5" => Sections = PipelineStages
  /\ phase5_data # None => PipelineStages \subseteq Sections

\* The session stage has been started.
SessionStarted == phase5_data # None

\* C6: under every combination of failures of the fetch (primary and
\* secondary), generation, embedding and index capabilities, stages 1 to 4
\* run in order, each returns to the driver without raising and has
\* recorded its section before the next one starts, and the session stage
\* is eventually started.
C6_PipelineSurvives == [](StagesInOrder) /\ <>(SessionStarted)

\* C6 witness: the session started after the primary fetch failed, a
\* secondary fetch failed, a generation call failed and an insert failed.
C6_Witness ==
  /\ SessionStarted
  /\ PrimaryAborted
  /\ \E i \in 1..Len(outside.secondary) : ~outside.secondary[i].ok
  /\ ExtractionAborted
  /\ outside.index.fails = "add"
  /\ "error" \in DOMAIN Section("phase1")
  /\ "error" \in DOMAIN Section("phase2")
  /\ "error" \in DOMAIN Section("phase3")

\* The run has ended: the finally block of the driver is done.
RunEnded == pc = "exited"

\* C7 as stated: in every run, ended normally or by an unhandled error, the
\* run log is written to the file exactly once, after the last activity of
\* the stages.
C7_PersistExactlyOnce ==
  /\ ~RunEnded => saves = <<>>
  /\ RunEnded =>
       /\ Len(saves) = 1
       /\ saves[1].data = all_phase_data
       /\ saves[1].outcome = "written"
       /\ filename(run_number) \in DOMAIN directory
       /\ directory[filename(run_number)].complete

\* C7 amended: in every run, ended normally or by an unhandled error,
\* save_run_json is called exactly once, after the last activity of the
\* stages, with the run log accumulated so far; the file is written at most
\* once, and it holds the whole run log unless the write itself fails (a
\* failed write is reported and not retried).
C7_SaveAttemptedOnce ==
  /\ ~RunEnded => saves = <<>>
  /\ RunEnded =>
       /\ Len(saves) = 1
       /\ saves[1].data = all_phase_data
       /\ saves[1].filename = filename(run_number)
       /\ saves[1].outcome = "written" =>
            /\ filename(run_number) \in DOMAIN directory
            /\ directory[filename(run_number)].complete
            /\ directory[filename(run_number)].run_number = all_phase_data.run_number

\* C7 witness: a run that an unhandled error ended during the index stage
\* wrote its partial run log.
C7_Witness ==
  /\ RunEnded
  /\ unhandled = "phase3"
  /\ Sections = {"phase1", "phase2"}
  /\ Len(saves) = 1
  /\ saves[1].outcome = "written"
  /\ directory[filename(run_number)].complete

\* The indexer met an error of the embedding model or of the vector store.
IndexFailed ==
  /\ outside.index.fails \in {"model", "client", "collection", "add"}
  /\ outside.index.class = "Exception"

\* C10: when the embedding model, the collection or the insert of any
\* document fails in the indexer, the failure is recorded in the indexer's
\* section and the pipeline goes on with the index unavailable: phase 4
\* reports the knowledge base as not available and no later question is
\* answered by querying the index.
C10_IndexFailureDisablesRetrieval ==
  IndexFailed =>
    /\ unhandled # "phase3"
    /\ Returned("phase3") => "error" \in DOMAIN Section("phase3")
    /\ Returned("phase4") => ~Section("phase4").knowledge_base_available
    /\ \A k \in 1..Len(rag_calls) : ~rag_calls[k].result.index_queried

\* The numbers of the artifacts "CyberX #N.json" in the directory.
ArtifactNumbers == {n \in 1..20 : filename(n) \in DOMAIN directory}

\* The run numbers of the processes run so far in the directory, the
\* current one included once it has chosen its number.
RunNumbers ==
  [i \in 1..Len(history) |-> history[i].run_number]
  \o (IF pc = "start" THEN <<>> ELSE <<run_number>>)

\* Whether the i-th process created its file.
Created(i) == history[i].written

\* The number chosen at start-up, the name written and the number stored.
RunNumberChosen ==
  /\ pc \notin {"start", "exited"} =>
       run_number = IF ArtifactNumbers = {} THEN 1
                    ELSE 1 + (CHOOSE m \in ArtifactNumbers :
                                \A n \in ArtifactNumbers : n <= m)
  /\ \A k \in 1..Len(saves) : ~saves[k].existed
  /\ \A n \in ArtifactNumbers : directory[filename(n)].run_number = n

\* C9 as stated: the run number is 1 with no artifact and otherwise 1 + the
\* highest N of the artifacts; over any sequence of runs in one directory
\* the run numbers strictly increase, a run never writes under the name of
\* an existing artifact, and the stored run_number is the N of the name.
C9_RunCounter ==
  /\ RunNumberChosen
  /\ \A i, j \in 1..Len(RunNumbers) : i < j => RunNumbers[i] < RunNumbers[j]

\* C9 amended: the run number is 1 with no artifact and otherwise 1 + the
\* highest N of the artifacts; over any sequence of runs in one directory
\* the run numbers never decrease, and they increase after every run that
\* created its file (a run whose file could not be created leaves its
\* number to the next run); a run never writes under the name of an
\* existing artifact, and the stored run_number is the N of the name.
C9_RunCounterByArtifacts ==
  /\ RunNumberChosen
  /\ \A i, j \in 1..Len(RunNumbers) : i < j => RunNumbers[i] <= RunNumbers[j]
  /\ \A i \in 1..Len(history) :
       Created(i) /\ i < Len(RunNumbers) => RunNumbers[i] < RunNumbers[i + 1]

\* C9 witness: in a directory holding artifacts 9 and 10, a run wrote
\* artifact 11 and the next run chose 12.
C9_Witness ==
  /\ Len(history) = 1
  /\ history[1].run_number = 11
  /\ Created(1)
  /\ pc = "phase1"
  /\ run_number = 12
  /\ ArtifactNumbers = {9, 10, 11}

\* The indexer of this process ran to its end without an error.
IndexSucceeded == Returned("phase3") /\ outside.index.fails = "none"

\* The decimal string of a number below 100, written out.
Decimal(k) ==
  LET digit == [d \in 0..9 |-> <<"0", "1", "2", "3", "4", "5", "6", "7", "8", "9">>[d + 1]]
  IN  IF k < 10 THEN <<digit[k]>> ELSE <<digit[k \div 10], digit[k % 10]>>

\* C11: when the indexer succeeds on n documents, the k-th document in
\* input order (k = 0..n-1) is inserted under the decimal string of k, so
\* the ids are "0".."n-1" with no gap or duplicate; and a later run of the
\* indexer on the same documents gives every document the id it had.
C11_SequentialIds ==
  /\ IndexSucceeded =>
       /\ Len(collection.entries) = Len(documents)
       /\ \A k \in 1..Len(documents) :
            /\ collection.entries[k].id = Decimal(k - 1)
            /\ collection.entries[k].document.json = documents[k]
       /\ \A j, k \in 1..Len(collection.entries) :
            j # k => collection.entries[j].id # collection.entries[k].id
  /\ \A i \in 1..Len(history) :
       IndexSucceeded /\ history[i].indexed /\ history[i].documents = documents =>
         \A k \in 1..Len(documents) :
           history[i].collection.entries[k].id = collection.entries[k].id

\* C11 witness: the second process indexed the 15 built-in documents that
\* the first had indexed; the last one has id "14".
C11_Witness ==
  /\ Len(history) = 1
  /\ history[1].indexed
  /\ IndexSucceeded
  /\ Len(documents) = 15
  /\ history[1].documents = documents
  /\ collection.entries[15].id = <<"1", "4">>

\* The fetches that produced the returned documents: those of the
\* secondary pass when it ran, else those of the primary pass.
ReturnedFetches ==
  IF outside.secondary # <<>> THEN outside.secondary ELSE outside.primary

\* The source a url stands for.
SourceOf(url) == CHOOSE i \in 1..Len(Sources) : Sources[i] = url

\* The reports logged by phase 1.
LoggedReports == Section("phase1").reports

Ellipsis == <<".", ".", ".">>

\* C12: the content of every raw document, from either collection path, is
\* the first 10,000 characters of the page's text at most; the logged
\* content_preview is the whole content when it has at most 500
\* characters, and otherwise its first 500 characters followed by "...",
\* so it has at most 503 characters.
C12_TruncationBounds ==
  Returned("phase1") =>
    /\ \A k \in 1..Len(raw_reports) :
         LET page == ReturnedFetches[SourceOf(raw_reports[k].url)]
             content == raw_reports[k].content
         IN  /\ content.tail = <<>>
             /\ content.chars = IF page.paragraphs <= 10000 THEN page.paragraphs ELSE 10000
             /\ TextLen(content) <= 10000
    /\ \A k \in 1..Len(LoggedReports) :
         TextLen(LoggedReports[k].content_preview) <= 503
    /\ Len(LoggedReports) = Len(raw_reports) =>
         \A k \in 1..Len(raw_reports) :
           LET content == raw_reports[k].content
               preview == LoggedReports[k].content_preview
           IN  IF TextLen(content) <= 500
               THEN preview = content
               ELSE preview = [chars |-> 500, tail |-> Ellipsis]

\* C12 witness: a page of 12,000 characters was cut to 10,000 and previewed
\* by 500 characters and "...", and a page of exactly 500 characters was
\* previewed whole.
C12_Witness ==
  /\ Returned("phase1")
  /\ Len(raw_reports) = 2
  /\ Len(LoggedReports) = 2
  /\ ReturnedFetches[1].paragraphs = 12000
  /\ TextLen(raw_reports[1].content) = 10000
  /\ TextLen(LoggedReports[1].content_preview) = 503
  /\ TextLen(raw_reports[2].content) = 500
  /\ LoggedReports[2].content_preview = raw_reports[2].content

\* The secondary path was taken in this run.
SecondaryTaken == ~use_zenrows(ZENROWS_API_KEY) \/ PrimaryAborted

\* The failures of the fetches `fetched`, in the order of the source list,
\* from source i on.
RECURSIVE FailuresFrom(_, _)
FailuresFrom(i, fetched) ==
  IF i > Len(fetched) THEN <<>>
  ELSE IF fetched[i].ok THEN FailuresFrom(i + 1, fetched)
  ELSE <<[url |-> Sources[i], error |-> fetched[i].error]>> \o FailuresFrom(i + 1, fetched)

\* C13: in the secondary path every source of the list is attempted once,
\* in order, whatever failed before; each failing source adds one
\* {url, error} entry to failed_urls and each succeeding source one raw
\* document, so collected_count + len(failed_urls) is the number of
\* sources and the returned documents keep the order of the source list.
C13_SecondaryIsolation ==
  Returned("phase1") /\ SecondaryTaken =>
    /\ Len(outside.secondary) = Len(Sources)
    /\ Section("phase1").failed_urls = FailuresFrom(1, outside.secondary)
    /\ raw_reports = PagesFrom(1, outside.secondary)
    /\ Section("phase1").collected_count + Len(Section("phase1").failed_urls) = Len(Sources)
    /\ \A j, k \in 1..Len(raw_reports) :
         j < k => SourceOf(raw_reports[j].url) < SourceOf(raw_reports[k].url)

\* C13 witness: with no key configured, the first source failed and the
\* second was still collected.
C13_Witness ==
  /\ Returned("phase1")
  /\ ~use_zenrows(ZENROWS_API_KEY)
  /\ ~outside.secondary[1].ok
  /\ outside.secondary[2].ok
  /\ Section("phase1").collected_count = 1
  /\ Len(Section("phase1").failed_urls) = 1
  /\ raw_reports[1].url = Sources[2]

\* a is the text t without the blanks at its ends.
IsTrimmed(t, a) ==
  \E i \in 1..(Len(t) + 1) : \E j \in 0..Len(t) :
    /\ a = SubSeq(t, i, j)
    /\ \A k \in 1..(i - 1) : t[k] \in {" ", "\t", "\n"}
    /\ \A k \in (j + 1)..Len(t) : t[k] \in {" ", "\t", "\n"}
    /\ a # <<>> => a[1] \notin {" ", "\t", "\n"} /\ a[Len(a)] \notin {" ", "\t", "\n"}

\* Tier 1 of a retriever call had everything it needs and nothing failed.
TierOneSucceeds(o) ==
  /\ collection # None
  /\ embedding_model # None
  /\ USE_LLM
  /\ o.encoding.ok
  /\ o.querying.ok
  /\ o.generation.ok

\* C14: when both handles are present, generation is enabled, and the
\* embedding, the index query (3 results at most) and the generation all
\* succeed, rag_query returns the trimmed generated text and does not
\* consult the question table, even for a question that is a table key;
\* the table is consulted only after a failure in tier 1, and at most one
\* generation call is issued per question.
C14_TierPrecedence ==
  \A k \in 1..Len(rag_calls) :
    LET r == rag_calls[k].result
        o == rag_calls[k].outside
    IN  /\ TierOneSucceeds(o) =>
             /\ ~r.escaped
             /\ ~r.fallback
             /\ IsTrimmed(o.generation.text, r.answer)
             /\ r.index_queried
             /\ Len(r.context) <= 3
             /\ Len(r.context) = IF Len(collection.entries) < 3
                                 THEN Len(collection.entries) ELSE 3
             /\ r.generation_calls = 1
        /\ r.fallback => ~TierOneSucceeds(o)
        /\ r.generation_calls <= 1

\* C14 witness: the question "recent activities of apt31?", a table key,
\* was answered by the generated text from 3 of 15 indexed documents.
C14_Witness ==
  /\ Len(rag_calls) = 1
  /\ rag_calls[1].result.query = KeyApt31
  /\ TierOneSucceeds(rag_calls[1].outside)
  /\ rag_calls[1].result.answer = <<"APT41 targets US officials.">>
  /\ rag_calls[1].result.answer # AnswerApt31
  /\ Len(collection.entries) = 15
  /\ Len(rag_calls[1].result.context) = 3

\* The i-th response of the text model is not JSON.
Malformed(i) ==
  /\ outside.generated[i].ok
  /\ IsTrimmed(outside.generated[i].text, <<ChattyJson>>)

\* C15: on the primary path of the extractor a response that is not JSON
\* does not trigger the substitute path and drops or reorders nothing: the
\* i-th document has the title and the url of the i-th raw document, and
\* for a malformed response its threat_intelligence wraps the response
\* text (without its end blanks) with the note "JSON parse failed".
C15_ParseFailureKeepsDocument ==
  Returned("phase2") /\ ExtractionCompleted =>
    /\ Len(documents) = Len(raw_reports)
    /\ ~Section("phase2").used_mock
    /\ Section("phase2").used_llm
    /\ "error" \notin DOMAIN Section("phase2")
    /\ \A i \in 1..Len(raw_reports) :
         /\ documents[i].title = raw_reports[i].title
         /\ documents[i].source = raw_reports[i].url
         /\ Malformed(i) =>
              /\ documents[i].threat_intelligence.type = "dict"
              /\ IsTrimmed(outside.generated[i].text,
                           documents[i].threat_intelligence.value.raw)
              /\ documents[i].threat_intelligence.value.note = "JSON parse failed"

\* C15 witness: the first of two responses was malformed; both documents
\* were returned, in the order of the raw documents.
C15_Witness ==
  /\ Returned("phase2")
  /\ ExtractionCompleted
  /\ Len(raw_reports) = 2
  /\ Malformed(1)
  /\ ~Malformed(2)
  /\ documents[1].source = raw_reports[1].url
  /\ documents[1].threat_intelligence.value.raw = <<ChattyJson>>
  /\ documents[2].source = raw_reports[2].url
  /\ raw_reports[1].url # raw_reports[2].url

\* The summary table logged by phase 3.
SummaryTable == Section("phase3").entries

\* The value the summary shows for a list field of a threat-intelligence
\* value: its items joined by ", ", or "None" when the value is not a
\* mapping or is a mapping without the field.
ShownOrNone(ti, field) ==
  IF ti.type = "dict" /\ field \in DOMAIN ti.value
  THEN Join(ti.value[field])
  ELSE <<"None">>

\* C16: the display entry of every document has actor "Unknown" when the
\* threat-intelligence value is not a mapping, and each of aliases, ttps,
\* targets is the comma-separated join of the field's items when the field
\* is present, and "None" both when the value is not a mapping and when it
\* is a mapping that lacks the field.
C16_SummaryDefaults ==
  Returned("phase3") /\ outside.index.fails = "none" =>
    \A k \in 1..Len(documents) :
      LET ti == documents[k].threat_intelligence
          entry == SummaryTable[k]
      IN  /\ ti.type # "dict" => entry.actor = "Unknown"
          /\ entry.aliases = ShownOrNone(ti, "aliases")
          /\ entry.ttps = ShownOrNone(ti, "ttps")
          /\ entry.targets = ShownOrNone(ti, "targets")

\* The session ended on a termination keyword.
SessionCompleted == phase5_data # None /\ phase5_data.status = "completed"

\* The lines read before the termination keyword.
LinesBeforeStop == SubSeq(inputs, 1, Len(inputs) - 1)

SessionAborted == unhandled = "phase5"

\* The run log in the file written by this run.
PersistedLog == saves[1].data

\* C18: when an unhandled error ends the session (the input source fails
\* or is exhausted, say) after q questions were accepted, the run log that
\* is persisted has a session section holding those q questions.
C18_QuestionsSurviveAbort ==
  RunEnded /\ SessionAborted =>
    /\ "phase5" \in DOMAIN PersistedLog.phases
    /\ PersistedLog.phases["phase5"].queries = phase5_data.queries

\* C19: in the record the collector logs, on every path (primary success,
\* secondary only, primary aborted then secondary), collected_count is the
\* number of entries of reports, and reports lists exactly the documents
\* returned (same urls, same order), none left from an aborted primary
\* pass.
C19_CollectorLogConsistent ==
  Returned("phase1") =>
    /\ Section("phase1").collected_count = Len(LoggedReports)
    /\ Len(LoggedReports) = Len(raw_reports)
    /\ \A k \in 1..Len(raw_reports) :
         /\ LoggedReports[k].url = raw_reports[k].url
         /\ LoggedReports[k].title = raw_reports[k].title

\* The documents logged by phase 2.
LoggedDocuments == Section("phase2").documents

\* C20: in the record the extractor logs, on every path (primary success,
\* substitute from the start, primary aborted by a generation error after
\* some documents were extracted), document_count is the number of entries
\* of the record's documents, and that list is exactly the documents
\* returned to the indexer.
C20_ExtractorLogConsistent ==
  Returned("phase2") =>
    /\ Section("phase2").document_count = Len(LoggedDocuments)
    /\ LoggedDocuments = documents

\* C21: in the record the indexer logs, whether or not an embedding or
\* index call failed, total_entries is the number of entries of the summary
\* table, and the table holds one entry per input document, in input
\* order, with index values 1..n.
C21_IndexerLogConsistent ==
  Returned("phase3") =>
    /\ Section("phase3").total_entries = Len(SummaryTable)
    /\ Len(SummaryTable) = Len(documents)
    /\ \A k \in 1..Len(SummaryTable) :
         /\ SummaryTable[k].index = k
         /\ SummaryTable[k].title = documents[k].title
         /\ SummaryTable[k].source = documents[k].source
=============================================================================
